---- MODULE Spec2Model ----
(***************************************************************************)
(* The voice-stress pipeline of the AudioAnalyzer React component          *)
(* (src/src/components/AudioAnalyzer.tsx).                                 *)
(*                                                                         *)
(* Numbers.  The component computes in IEEE doubles; the model computes in *)
(* integers with fixed units, rounding down where a quotient or a root is  *)
(* not a whole number of units:                                            *)
(*   scores, jitter, shimmer, highFreqEnergy, spectralCentroid : 1/1000    *)
(*   frequencies (pitch)                                       : 1/10 Hz   *)
(*   linear power 10^(dB/10)                                   : 1/100     *)
(*   audio level                                               : 0..100    *)
(* -Infinity (a silent bin) is the value NegInf, below every dB value.     *)
(*                                                                         *)
(* A frame is what one analyzeAudio call reads from the AnalyserNode: the  *)
(* float spectrum (len bins, every bin at `base` dB except the bins of     *)
(* `peaks`) and the byte spectrum, of which only the mean matters (`byte`).*)
(* Both are inputs of the environment and are chosen independently.        *)
(*                                                                         *)
(* React.  Every render creates new closures; a closure sees the props and *)
(* state of its render only.  The model keeps the committed state in the   *)
(* variables and hands each analyzeAudio call the closure record `cl` of   *)
(* the render that created it.  Functional updates (setX(prev => ...)) are *)
(* applied to the committed state.                                         *)
(***************************************************************************)
EXTENDS Integers, Sequences, FiniteSets, TLC

VARIABLES
    sessionId,           \* prop sessionId (EmotionDetector's state, line 490)
    isActive,            \* prop isActive (EmotionDetector's isRecording)
    hasAudioPermission,  \* useState, line 32
    isListening,         \* useState, line 29
    analyser,            \* analyserRef.current is set
    voiceHistory,        \* useState, line 36
    pitchHistory,        \* useState, line 37
    volumeHistory,       \* useState, line 38
    animationRef,        \* animationRef.current (0: undefined)
    pending,             \* requestAnimationFrame callbacks not yet run
    nextId,              \* the id the next requestAnimationFrame returns
    awaiting,            \* initializeAudio calls suspended in getUserMedia
    effectDirty,         \* a render with changed effect deps is not flushed
    lastTick,            \* what the most recent analyzeAudio call did
    emitCount,           \* number of onVoiceAnalyzed calls so far
    emittedSessions,     \* the sessionId fields of the records emitted so far
    pushedPitch,         \* every value ever pushed on pitchHistory
    pushedVolume,        \* every value ever pushed on volumeHistory
    ticks,               \* analyzeAudio calls that passed the guard
    clicks,              \* user and parent events so far
    switches,            \* changes of the input frame (stream runs)
    fnArgs,              \* arguments of a function applied in isolation
    fnResult,            \* its result
    hasConsent,          \* EmotionDetector useState, line 491
    cameraState,         \* EmotionDetector useState, line 492
    videoReady,          \* EmotionDetector useState, line 494
    cameraRequests,      \* initializeCamera calls suspended in getUserMedia
    videoSource,         \* the video element has a stream and its listeners
    emotionInterval,     \* the setInterval of lines 689-695, with its closure
    detectorDirty,       \* a render of EmotionDetector is not flushed
    lastFrame,           \* what the most recent processFrame call did
    emotionData,         \* App useState, part_002 line 28
    voiceData,           \* App useState, part_002 line 29
    emotionCount,        \* onEmotionDetected calls so far
    voiceCount,          \* onVoiceAnalyzed calls received by the App so far
    clearCount,          \* clearData calls so far
    selectedSession,     \* DataLogger useState, line 31
    filteredData,        \* DataLogger useState, line 32
    filteredVoiceData,   \* DataLogger useState, line 33
    filterDirty,         \* the filter effect has not run for the last change
    emotionHistory,      \* CLI this.emotionHistory, part_000 line 10
    detectionCount,      \* CLI this.detectionCount, part_000 line 70
    detections           \* every detection handed to updateAnalysis

histories == <<voiceHistory, pitchHistory, volumeHistory>>
ghosts == <<lastTick, emitCount, emittedSessions, pushedPitch, pushedVolume,
            ticks>>
loop == <<animationRef, pending, nextId>>
flags == <<isActive, hasAudioPermission, isListening, analyser>>
fnVars == <<fnArgs, fnResult>>
detector == <<hasConsent, cameraState, videoReady, cameraRequests,
              videoSource, emotionInterval, detectorDirty, lastFrame>>
app == <<emotionData, voiceData, emotionCount, voiceCount, clearCount>>
logger == <<selectedSession, filteredData, filteredVoiceData, filterDirty>>
cli == <<emotionHistory, detectionCount, detections>>
\* the state outside the AudioAnalyzer component
outside == <<detector, app, logger, cli>>
\* the state of the AudioAnalyzer component but its isActive prop
analyzer == <<hasAudioPermission, isListening, analyser, histories, loop,
              awaiting, effectDirty, ghosts>>
vars == <<sessionId, flags, histories, loop, awaiting, effectDirty, ghosts,
          clicks, switches, fnVars, outside>>

(***************************************************************************)
(* Bounds of the model.                                                    *)
(***************************************************************************)
MaxTicks == 5
MaxClicks == 2
MaxStreamTicks == 22
MaxSwitches == 1
MaxHistLen == 6
MaxControlClicks == 4
MaxControlTicks == 3
MaxDetectorEvents == 5
MaxRecords == 4
MaxLogLen == 3
MaxSelections == 2
MaxDetections == 22
MaxEmotionRecords == 6
MaxVoiceRecords == 4

(***************************************************************************)
(* Arithmetic helpers.                                                     *)
(***************************************************************************)
Abs(x) == IF x < 0 THEN -x ELSE x
Min(a, b) == IF a < b THEN a ELSE b
Max(a, b) == IF a > b THEN a ELSE b

\* floor(a * m / d) without forming a * m when a is large
MulDiv(a, m, d) == (a \div d) * m + ((a % d) * m) \div d

RECURSIVE SqrtSearch(_, _, _)
SqrtSearch(n, lo, hi) ==
    IF lo >= hi THEN lo
    ELSE LET mid == (lo + hi + 1) \div 2
         IN IF mid * mid <= n THEN SqrtSearch(n, mid, hi)
                              ELSE SqrtSearch(n, lo, mid - 1)

\* Math.sqrt, rounded down
Sqrt(n) == SqrtSearch(n, 0, Min(n, 40000))

RECURSIVE SumSeq(_)
SumSeq(s) == IF s = <<>> THEN 0 ELSE Head(s) + SumSeq(Tail(s))

RECURSIVE SumSqDev(_, _)
SumSqDev(s, mean) ==
    IF s = <<>> THEN 0
    ELSE (Head(s) - mean) * (Head(s) - mean) + SumSqDev(Tail(s), mean)

\* Array.prototype.slice(-k)
SliceLast(s, k) ==
    IF Len(s) <= k THEN s ELSE SubSeq(s, Len(s) - k + 1, Len(s))

Last(s) == s[Len(s)]

(***************************************************************************)
(* Frames.                                                                 *)
(***************************************************************************)
NegInf == -1000000
FftSize == 2048
FrequencyBinCount == FftSize \div 2

NoPeaks == [i \in {} |-> 0]

Frame(len, base, peaks, byte) ==
    [len |-> len, base |-> base, peaks |-> peaks, byte |-> byte]

\* frequencyData[i]
At(fr, i) == IF i \in DOMAIN fr.peaks THEN fr.peaks[i] ELSE fr.base

FrameIds == {"silent", "quiet", "low", "speech", "loud"}

\* the frames the analyser delivers in the runs below
InputFrames == FrameIds
StreamFrames == {"low", "loud"}

FrameOf(id) ==
    CASE id = "silent" -> Frame(FrequencyBinCount, NegInf, NoPeaks, 0)
      [] id = "quiet"  -> Frame(FrequencyBinCount, -100, (7 :> 0), 14)
      [] id = "low"    -> Frame(FrequencyBinCount, -100, (3 :> 0), 15)
      [] id = "speech" -> Frame(FrequencyBinCount, -100, (7 :> 0), 50)
      [] id = "loud"   -> Frame(FrequencyBinCount, -100,
                                (12 :> 0) @@ (800 :> 30), 204)

\* Math.pow(10, dB / 10) in 1/100; dB a multiple of 10
Pow10(dB) ==
    IF dB = NegInf \/ dB < -20 THEN 0 ELSE 10 ^ ((dB + 20) \div 10)

NaN == NegInf - 1

(***************************************************************************)
(* FeatureExtractor: lines 165-231.                                        *)
(***************************************************************************)
NyquistRef == 22050
VoiceLowHz == 80
VoiceHighHz == 300

\* The for loop of detectFundamentalFrequency from bin i on; the result is
\* maxIndex.
RECURSIVE PeakScan(_, _, _, _, _)
PeakScan(fr, i, endIndex, maxIndex, maxValue) ==
    IF i < endIndex /\ i < fr.len
    THEN IF At(fr, i) > maxValue
         THEN PeakScan(fr, i + 1, endIndex, i, At(fr, i))
         ELSE PeakScan(fr, i + 1, endIndex, maxIndex, maxValue)
    ELSE maxIndex

DetectPeakIndex(fr) ==
    LET startIndex == (VoiceLowHz * fr.len) \div NyquistRef
        endIndex == (VoiceHighHz * fr.len) \div NyquistRef
    IN PeakScan(fr, startIndex, endIndex, 0, NegInf)

\* frequency of bin i, in 1/10 Hz
BinFrequency(i, len) == (i * NyquistRef * 10) \div len

DetectFundamentalFrequency(fr) ==
    IF fr.len = 0 THEN NaN
    ELSE BinFrequency(DetectPeakIndex(fr), fr.len)

\* sum of g(i) over lo <= i < hi for the two spectrum loops; the additions of
\* the loop are grouped by halves
RECURSIVE PowerSum(_, _, _, _)
PowerSum(fr, lo, hi, weighted) ==
    IF lo >= hi THEN 0
    ELSE IF hi = lo + 1
         THEN (IF weighted THEN lo ELSE 1) * Pow10(At(fr, lo))
         ELSE LET mid == (lo + hi) \div 2
              IN PowerSum(fr, lo, mid, weighted) + PowerSum(fr, mid, hi, weighted)

HighFreqStart(len) == (len * 6) \div 10

\* variant: the mean power returned without Math.min
CalculateHighFrequencyEnergyUnclamped(fr) ==
    LET highFreqStart == HighFreqStart(fr.len)
        energy == PowerSum(fr, highFreqStart, fr.len, FALSE)
    IN IF fr.len = highFreqStart THEN NaN
       ELSE MulDiv(energy, 10, fr.len - highFreqStart)

CalculateHighFrequencyEnergy(fr) ==
    LET highFreqStart == HighFreqStart(fr.len)
        energy == PowerSum(fr, highFreqStart, fr.len, FALSE)
    IN IF fr.len = highFreqStart THEN NaN
       ELSE Min(MulDiv(energy, 10, fr.len - highFreqStart), 1000)

CalculateSpectralCentroid(fr) ==
    LET weightedSum == PowerSum(fr, 0, fr.len, TRUE)
        magnitudeSum == PowerSum(fr, 0, fr.len, FALSE)
    IN IF magnitudeSum > 0 THEN MulDiv(weightedSum, 1000, magnitudeSum) ELSE 0

\* sum of |recent[i] - recent[i-1]| for i = 1 .. recent.length - 1
RECURSIVE SumAbsDiff(_)
SumAbsDiff(recent) ==
    IF Len(recent) < 2 THEN 0
    ELSE Abs(recent[2] - recent[1]) + SumAbsDiff(Tail(recent))

\* variant: the whole history in the window
CalculateJitterWholeHistory(pitchHist, currentPitch) ==
    IF Len(pitchHist) < 3 THEN 0
    ELSE LET recent == Append(pitchHist, currentPitch)
             jitterSum == SumAbsDiff(recent)
         IN Min(jitterSum \div (Len(recent) - 1), 1000)

\* variant: the magnitudes summed, not the differences
CalculateJitterNoDifference(pitchHist, currentPitch) ==
    IF Len(pitchHist) < 3 THEN 0
    ELSE LET recent == Append(SliceLast(pitchHist, 5), currentPitch)
             jitterSum == SumSeq(Tail(recent))
         IN Min(jitterSum \div (Len(recent) - 1), 1000)

\* variant: the guard one sample short
CalculateJitterTwoSamples(pitchHist, currentPitch) ==
    IF Len(pitchHist) < 2 THEN 0
    ELSE LET recent == Append(SliceLast(pitchHist, 5), currentPitch)
             jitterSum == SumAbsDiff(recent)
         IN Min(jitterSum \div (Len(recent) - 1), 1000)

\* pitches are in 1/10 Hz: (sum / n) Hz / 100 is sum / n thousandths
CalculateJitter(pitchHist, currentPitch) ==
    IF Len(pitchHist) < 3 THEN 0
    ELSE LET recent == Append(SliceLast(pitchHist, 5), currentPitch)
             jitterSum == SumAbsDiff(recent)
         IN Min(jitterSum \div (Len(recent) - 1), 1000)

CalculateShimmer(volumeHist, currentVolume) ==
    IF Len(volumeHist) < 3 THEN 0
    ELSE LET recent == Append(SliceLast(volumeHist, 5), currentVolume)
             shimmerSum == SumAbsDiff(recent)
         IN Min((shimmerSum * 1000) \div ((Len(recent) - 1) * 50), 1000)

(***************************************************************************)
(* ScoreCalculator: lines 233-277.                                         *)
(***************************************************************************)
\* variant: the centroid taken as a fraction of the bin count
CalculateStressLevelNormalized(highFreqEnergy, jitter, shimmer, spectralCentroid) ==
    LET stressScore == (highFreqEnergy * 3) \div 10
                       + jitter \div 4
                       + shimmer \div 4
                       + (IF spectralCentroid \div FrequencyBinCount > 600
                          THEN 200 ELSE 0)
    IN Min(Max(stressScore, 0), 1000)

CalculateStressLevel(highFreqEnergy, jitter, shimmer, spectralCentroid) ==
    LET stressScore == (highFreqEnergy * 3) \div 10
                       + jitter \div 4
                       + shimmer \div 4
                       + (IF spectralCentroid > 600 THEN 200 ELSE 0)
    IN Min(Max(stressScore, 0), 1000)

\* variant: the two volume scores exchanged
CalculateConfidenceLevelSwapped(volume, jitter, shimmer) ==
    LET volumeScore == IF volume > 20 /\ volume < 80 THEN 200 ELSE 400
        stabilityScore == ((1000 - jitter) * 3) \div 10
                          + ((1000 - shimmer) * 3) \div 10
    IN Min(Max(volumeScore + stabilityScore, 0), 1000)

\* variant: the optimal volume range with its bounds included
CalculateConfidenceLevelInclusive(volume, jitter, shimmer) ==
    LET volumeScore == IF volume >= 20 /\ volume <= 80 THEN 400 ELSE 200
        stabilityScore == ((1000 - jitter) * 3) \div 10
                          + ((1000 - shimmer) * 3) \div 10
    IN Min(Max(volumeScore + stabilityScore, 0), 1000)

\* variant: instability scored in place of stability
CalculateConfidenceLevelUnstable(volume, jitter, shimmer) ==
    LET volumeScore == IF volume > 20 /\ volume < 80 THEN 400 ELSE 200
        stabilityScore == (jitter * 3) \div 10 + (shimmer * 3) \div 10
    IN Min(Max(volumeScore + stabilityScore, 0), 1000)

CalculateConfidenceLevel(volume, jitter, shimmer) ==
    LET volumeScore == IF volume > 20 /\ volume < 80 THEN 400 ELSE 200
        stabilityScore == ((1000 - jitter) * 3) \div 10
                          + ((1000 - shimmer) * 3) \div 10
    IN Min(Max(volumeScore + stabilityScore, 0), 1000)

\* population variance of a non-empty history, in squared units
Variance(hist) ==
    LET mean == SumSeq(hist) \div Len(hist)
    IN SumSqDev(hist, mean) \div Len(hist)

\* variant: five samples still insufficient
CalculatePitchVariationSixSamples(pitchHist) ==
    IF Len(pitchHist) <= 5 THEN 0
    ELSE Min(Sqrt(Variance(pitchHist)), 1000)

\* sqrt(variance) is in 1/10 Hz, which is thousandths of 100 Hz
CalculatePitchVariation(pitchHist) ==
    IF Len(pitchHist) < 5 THEN 0
    ELSE Min(Sqrt(Variance(pitchHist)), 1000)

CountAbove(hist, threshold) ==
    Cardinality({i \in DOMAIN hist : hist[i] > threshold})

\* variant: a sample at the threshold counted as speech
CalculateSpeechRateInclusive(voiceHist) ==
    IF Len(voiceHist) < 10 THEN 500
    ELSE LET speechSegments == CountAbove(voiceHist, 9)
         IN Min((speechSegments * 1000) \div Len(voiceHist), 1000)

CalculateSpeechRate(voiceHist) ==
    IF Len(voiceHist) < 10 THEN 500
    ELSE LET speechSegments == CountAbove(voiceHist, 10)
         IN Min((speechSegments * 1000) \div Len(voiceHist), 1000)

\* sqrt(variance) is in level units: / 50 is * 20 thousandths; the root is
\* taken of the variance in 1/100 level units to keep two digits
CalculateVolumeConsistency(volumeHist) ==
    IF Len(volumeHist) < 5 THEN 1000
    ELSE Max(1000 - (Sqrt(Variance(volumeHist) * 10000) * 20) \div 100, 0)

(***************************************************************************)
(* StateClassifier: lines 279-286.                                         *)
(***************************************************************************)
EmotionalStates ==
    {"calm", "stressed", "confident", "uncertain", "deceptive", "anxious"}

\* variant: the confident rule asking for a confidence above 0.8
DetermineEmotionalStateHighConfidence(stress, confidence, pitchVar, speechRate) ==
    IF stress > 700 THEN "stressed"
    ELSE IF confidence > 800 /\ stress < 300 THEN "confident"
    ELSE IF pitchVar > 600 /\ speechRate < 400 THEN "uncertain"
    ELSE IF stress > 500 /\ pitchVar > 500 THEN "anxious"
    ELSE IF stress > 400 /\ confidence < 400 /\ pitchVar > 400 THEN "deceptive"
    ELSE "calm"

\* variant: the first threshold not strict
DetermineEmotionalStateNonStrict(stress, confidence, pitchVar, speechRate) ==
    IF stress >= 700 THEN "stressed"
    ELSE IF confidence > 700 /\ stress < 300 THEN "confident"
    ELSE IF pitchVar > 600 /\ speechRate < 400 THEN "uncertain"
    ELSE IF stress > 500 /\ pitchVar > 500 THEN "anxious"
    ELSE IF stress > 400 /\ confidence < 400 /\ pitchVar > 400 THEN "deceptive"
    ELSE "calm"

DetermineEmotionalState(stress, confidence, pitchVar, speechRate) ==
    IF stress > 700 THEN "stressed"
    ELSE IF confidence > 700 /\ stress < 300 THEN "confident"
    ELSE IF pitchVar > 600 /\ speechRate < 400 THEN "uncertain"
    ELSE IF stress > 500 /\ pitchVar > 500 THEN "anxious"
    ELSE IF stress > 400 /\ confidence < 400 /\ pitchVar > 400 THEN "deceptive"
    ELSE "calm"

(***************************************************************************)
(* AnalysisPipeline: analyzeAudio and performVoiceStressAnalysis,          *)
(* lines 101-163.                                                          *)
(***************************************************************************)
\* average = sum / bufferLength (the mean byte); Math.round(average / 255 * 100)
AudioLevel(fr) == (fr.byte * 200 + 255) \div 510

\* variants of the gate: the bound included, and the speech threshold of
\* calculateSpeechRate in its place
SignificantAudioInclusive(audioLevel) == audioLevel >= 5
SignificantAudioSpeech(audioLevel) == audioLevel > 10

\* the "significant audio input" gate of analyzeAudio
SignificantAudio(audioLevel) == audioLevel > 5

\* the three features read from the spectrum alone, per frame
FrameFeatures ==
    [id \in FrameIds |->
        [fundamentalFreq |-> DetectFundamentalFrequency(FrameOf(id)),
         highFreqEnergy |-> CalculateHighFrequencyEnergy(FrameOf(id)),
         spectralCentroid |-> CalculateSpectralCentroid(FrameOf(id)),
         audioLevel |-> AudioLevel(FrameOf(id))]]

\* setXHistory(prev => [...prev.slice(-19), value])
HistoryKeep == 19
\* variants of the update: slice(-20), and the new value put in front
PushHistorySliceTwenty(prev, value) ==
    Append(SliceLast(prev, HistoryKeep + 1), value)
PushHistoryInFront(prev, value) == <<value>> \o SliceLast(prev, HistoryKeep)

PushHistory(prev, value) == Append(SliceLast(prev, HistoryKeep), value)

\* variant: the voice history kept to the ten samples calculateSpeechRate
\* asks for
SetVoiceHistoryTenSamples(prev, volume) == Append(SliceLast(prev, 9), volume)

\* the updaters of lines 135-137
SetVoiceHistory(prev, volume) == PushHistory(prev, volume)
SetPitchHistory(prev, fundamentalFreq) == PushHistory(prev, fundamentalFreq)
SetVolumeHistory(prev, volume) == PushHistory(prev, volume)

\* the values `session_${Date.now()}` of two EmotionDetector instances
SessionIds == {"session_1", "session_2"}

\* the closures of the render of the current state
ClosureOf(active, voiceHist, pitchHist, volumeHist) ==
    [sessionId |-> sessionId, isActive |-> active, voiceHistory |-> voiceHist,
     pitchHistory |-> pitchHist, volumeHistory |-> volumeHist]

\* variant: a session id made up when the record is built, as its id is
RecordSessionIdFresh(cl) == "session_now"

\* the sessionId property of the record, line 158
RecordSessionId(cl) == cl.sessionId

\* the values performVoiceStressAnalysis computes, in the closure cl, for
\* frame id at level volume
PerformVoiceStressAnalysis(cl, id, volume) ==
    LET fundamentalFreq == FrameFeatures[id].fundamentalFreq
        highFreqEnergy == FrameFeatures[id].highFreqEnergy
        spectralCentroid == FrameFeatures[id].spectralCentroid
        jitter == CalculateJitter(cl.pitchHistory, fundamentalFreq)
        shimmer == CalculateShimmer(cl.volumeHistory, volume)
        stressLevel ==
            CalculateStressLevel(highFreqEnergy, jitter, shimmer, spectralCentroid)
        confidenceLevel == CalculateConfidenceLevel(volume, jitter, shimmer)
        pitchVariation == CalculatePitchVariation(cl.pitchHistory)
        speechRate == CalculateSpeechRate(cl.voiceHistory)
        volumeConsistency == CalculateVolumeConsistency(cl.volumeHistory)
        emotionalState ==
            DetermineEmotionalState(stressLevel, confidenceLevel,
                                    pitchVariation, speechRate)
    IN [fundamentalFreq |-> fundamentalFreq,
        highFreqEnergy |-> highFreqEnergy,
        spectralCentroid |-> spectralCentroid,
        jitter |-> jitter,
        shimmer |-> shimmer,
        analysis |-> [stressLevel |-> stressLevel,
                      confidenceLevel |-> confidenceLevel,
                      pitchVariation |-> pitchVariation,
                      speechRate |-> speechRate,
                      volumeConsistency |-> volumeConsistency,
                      emotionalState |-> emotionalState,
                      sessionId |-> RecordSessionId(cl)]]

NoTick == [ran |-> FALSE]

\* cancelAnimationFrame(id)
Cancel(callbacks, id) == {p \in callbacks : p.id # id}

\* One call of analyzeAudio in closure cl, reading frame id, with the
\* callbacks `base` pending; an is analyserRef.current at the call.
AnalyzeAudio(cl, an, id, base) ==
    IF ~an \/ ~cl.isActive
    THEN /\ pending' = base
         /\ UNCHANGED <<animationRef, nextId, histories, ghosts>>
    ELSE LET audioLevel == FrameFeatures[id].audioLevel
             r == PerformVoiceStressAnalysis(cl, id, audioLevel)
             go == SignificantAudio(audioLevel)
         IN /\ voiceHistory' =
                   IF go THEN SetVoiceHistory(voiceHistory, audioLevel)
                         ELSE voiceHistory
            /\ pitchHistory' =
                   IF go THEN SetPitchHistory(pitchHistory, r.fundamentalFreq)
                         ELSE pitchHistory
            /\ volumeHistory' =
                   IF go THEN SetVolumeHistory(volumeHistory, audioLevel)
                         ELSE volumeHistory
            /\ emitCount' = IF go THEN emitCount + 1 ELSE emitCount
            /\ emittedSessions' =
                   IF go THEN emittedSessions \cup {r.analysis.sessionId}
                         ELSE emittedSessions
            /\ pushedPitch' =
                   IF go THEN Append(pushedPitch, r.fundamentalFreq)
                         ELSE pushedPitch
            /\ pushedVolume' =
                   IF go THEN Append(pushedVolume, audioLevel) ELSE pushedVolume
            /\ lastTick' =
                   [ran |-> TRUE, frame |-> id, level |-> audioLevel,
                    active |-> isActive', listening |-> isListening',
                    emits |-> IF go THEN 1 ELSE 0,
                    cl |-> cl,
                    preVoice |-> voiceHistory,
                    prePitch |-> pitchHistory,
                    preVolume |-> volumeHistory,
                    preEmit |-> emitCount,
                    r |-> IF go THEN r ELSE NoTick]
            /\ ticks' = ticks + 1
            /\ pending' = base \cup {[id |-> nextId, cl |-> cl]}
            /\ animationRef' = nextId
            /\ nextId' = nextId + 1

(***************************************************************************)
(* The component: state after mount, and its handlers.                     *)
(***************************************************************************)
ComponentInit ==
    /\ sessionId \in SessionIds
    /\ isActive = FALSE
    /\ hasAudioPermission = FALSE
    /\ isListening = FALSE
    /\ analyser = FALSE
    /\ voiceHistory = <<>>
    /\ pitchHistory = <<>>
    /\ volumeHistory = <<>>
    /\ animationRef = 0
    /\ pending = {}
    /\ nextId = 1
    /\ awaiting = <<>>
    /\ effectDirty = FALSE
    /\ lastTick = NoTick
    /\ emitCount = 0
    /\ emittedSessions = {}
    /\ pushedPitch = <<>>
    /\ pushedVolume = <<>>
    /\ ticks = 0
    /\ clicks = 0
    /\ switches = 0

\* the effect of lines 288-298, run because a dependency changed: the
\* previous cleanup, then the body in the closures of the new render
RunAnalysisEffect(active, id) ==
    LET base == Cancel(pending, animationRef)
    IN IF active /\ hasAudioPermission' /\ isListening'
       THEN AnalyzeAudio(ClosureOf(active, voiceHistory, pitchHistory,
                                   volumeHistory), analyser, id, base)
       ELSE /\ pending' = base
            /\ UNCHANGED <<animationRef, nextId, histories, ghosts>>

\* the parent re-renders with a new isActive (a click on the record button:
\* the render and its effects are flushed with the event)
SetActive(b, id) ==
    /\ ~effectDirty
    /\ b # isActive
    /\ isActive' = b
    /\ UNCHANGED <<hasAudioPermission, isListening, analyser>>
    /\ RunAnalysisEffect(b, id)
    /\ clicks' = clicks + 1
    /\ UNCHANGED <<awaiting, effectDirty>>

\* initializeAudio up to the await of getUserMedia, lines 40-52; the button
\* is rendered while permission is missing or the analyser is not listening
InitializeAudioClick ==
    /\ ~effectDirty
    /\ ~hasAudioPermission \/ ~isListening
    /\ awaiting' = Append(awaiting, ClosureOf(isActive, voiceHistory,
                                              pitchHistory, volumeHistory))
    /\ clicks' = clicks + 1
    /\ UNCHANGED <<flags, histories, loop, effectDirty, ghosts>>

\* initializeAudio after getUserMedia resolved, lines 54-73
InitializeAudioResolve(id) ==
    /\ awaiting # <<>>
    /\ awaiting' = Tail(awaiting)
    /\ analyser' = TRUE
    /\ hasAudioPermission' = TRUE
    /\ isListening' = TRUE
    /\ UNCHANGED isActive
    /\ AnalyzeAudio(Head(awaiting), TRUE, id, pending)
    /\ effectDirty' = (effectDirty \/ ~hasAudioPermission \/ ~isListening)
    /\ UNCHANGED clicks

\* initializeAudio after getUserMedia rejected, lines 75-79
InitializeAudioReject ==
    /\ awaiting # <<>>
    /\ awaiting' = Tail(awaiting)
    /\ hasAudioPermission' = FALSE
    /\ effectDirty' = (effectDirty \/ hasAudioPermission)
    /\ UNCHANGED <<isActive, isListening, analyser, histories, loop, ghosts,
                   clicks>>

\* the render after initializeAudio's state updates, and its effect
FlushEffect(id) ==
    /\ effectDirty
    /\ effectDirty' = FALSE
    /\ UNCHANGED flags
    /\ RunAnalysisEffect(isActive, id)
    /\ UNCHANGED <<awaiting, clicks>>

\* stopAudio, lines 82-99, from the Stop Analysis button, then the render
\* with isListening false and the effect's cleanup
StopAudio ==
    /\ ~effectDirty
    /\ hasAudioPermission /\ isListening
    /\ isListening' = FALSE
    /\ pending' = Cancel(pending, animationRef)
    /\ UNCHANGED <<isActive, hasAudioPermission, analyser, animationRef,
                   nextId, histories, ghosts, awaiting, effectDirty>>
    /\ clicks' = clicks + 1

\* a requestAnimationFrame callback runs
AnimationFrame(p, id) ==
    /\ p \in pending
    /\ UNCHANGED <<flags, awaiting, effectDirty, clicks>>
    /\ AnalyzeAudio(p.cl, analyser, id, pending \ {p})

(***************************************************************************)
(* The component under user events, promise resolutions, renders and       *)
(* animation frames.                                                       *)
(***************************************************************************)
NoCall == [op |-> "none"]
NoInterval == [set |-> FALSE]
NoFrame == [ran |-> FALSE]

\* EmotionDetector, App and DataLogger after mount; the CLI after its
\* constructor
OutsideInit ==
    /\ hasConsent = FALSE
    /\ cameraState = "idle"
    /\ videoReady = FALSE
    /\ cameraRequests = 0
    /\ videoSource = FALSE
    /\ emotionInterval = NoInterval
    /\ detectorDirty = FALSE
    /\ lastFrame = NoFrame
    /\ emotionData = <<>>
    /\ voiceData = <<>>
    /\ emotionCount = 0
    /\ voiceCount = 0
    /\ clearCount = 0
    /\ selectedSession = "all"
    /\ filteredData = <<>>
    /\ filteredVoiceData = <<>>
    /\ filterDirty = FALSE
    /\ emotionHistory = <<>>
    /\ detectionCount = 0
    /\ detections = <<>>

Init ==
    /\ ComponentInit
    /\ OutsideInit
    /\ fnArgs = NoCall
    /\ fnResult = NoCall

Next ==
    \/ \E b \in BOOLEAN, id \in InputFrames :
          /\ clicks < MaxClicks /\ ticks < MaxTicks
          /\ SetActive(b, id)
          /\ UNCHANGED <<sessionId, switches, fnVars, outside>>
    \/ /\ clicks < MaxClicks
       /\ InitializeAudioClick
       /\ UNCHANGED <<sessionId, switches, fnVars, outside>>
    \/ \E id \in InputFrames :
          /\ ticks < MaxTicks
          /\ InitializeAudioResolve(id)
          /\ UNCHANGED <<sessionId, switches, fnVars, outside>>
    \/ /\ InitializeAudioReject
       /\ UNCHANGED <<sessionId, switches, fnVars, outside>>
    \/ \E id \in InputFrames :
          /\ ticks < MaxTicks
          /\ FlushEffect(id)
          /\ UNCHANGED <<sessionId, switches, fnVars, outside>>
    \/ /\ clicks < MaxClicks
       /\ StopAudio
       /\ UNCHANGED <<sessionId, switches, fnVars, outside>>
    \/ \E p \in pending, id \in InputFrames :
          /\ ticks < MaxTicks
          /\ AnimationFrame(p, id)
          /\ UNCHANGED <<sessionId, switches, fnVars, outside>>

Spec == Init /\ [][Next]_vars

(***************************************************************************)
(* Long runs: recording is switched on and the microphone enabled once,    *)
(* in either order; the analyser then delivers a stream that changes frame *)
(* at most MaxSwitches times, long enough for the histories to evict.      *)
(***************************************************************************)
\* the stream's bookkeeping after a step that may have run a tick
StreamStep ==
    /\ switches' =
           IF lastTick.ran /\ lastTick'.frame # lastTick.frame
           THEN switches + 1 ELSE switches
    /\ switches' <= MaxSwitches
    /\ UNCHANGED <<sessionId, fnVars, outside>>

NextStream ==
    \/ \E id \in StreamFrames :
          /\ ticks < MaxStreamTicks
          /\ SetActive(TRUE, id)
          /\ StreamStep
    \/ /\ awaiting = <<>>
       /\ InitializeAudioClick
       /\ UNCHANGED <<sessionId, switches, fnVars, outside>>
    \/ \E id \in StreamFrames :
          /\ ticks < MaxStreamTicks
          /\ InitializeAudioResolve(id)
          /\ StreamStep
    \/ \E id \in StreamFrames :
          /\ ticks < MaxStreamTicks
          /\ FlushEffect(id)
          /\ StreamStep
    \/ \E p \in pending, id \in StreamFrames :
          /\ ticks < MaxStreamTicks
          /\ AnimationFrame(p, id)
          /\ StreamStep

\* one EmotionDetector instance
InitStream ==
    /\ Init
    /\ sessionId = "session_1"

SpecStream == InitStream /\ [][NextStream]_vars

(***************************************************************************)
(* Control: more clicks of the record and microphone buttons over fewer    *)
(* ticks, every tick reading the same frame, under one EmotionDetector.    *)
(***************************************************************************)
ControlFrames == {"low"}

InitControl ==
    /\ Init
    /\ sessionId = "session_1"

NextControl ==
    \/ \E b \in BOOLEAN, id \in ControlFrames :
          /\ clicks < MaxControlClicks /\ ticks < MaxControlTicks
          /\ SetActive(b, id)
          /\ UNCHANGED <<sessionId, switches, fnVars, outside>>
    \/ /\ clicks < MaxControlClicks
       /\ InitializeAudioClick
       /\ UNCHANGED <<sessionId, switches, fnVars, outside>>
    \/ \E id \in ControlFrames :
          /\ ticks < MaxControlTicks
          /\ InitializeAudioResolve(id)
          /\ UNCHANGED <<sessionId, switches, fnVars, outside>>
    \/ /\ InitializeAudioReject
       /\ UNCHANGED <<sessionId, switches, fnVars, outside>>
    \/ \E id \in ControlFrames :
          /\ ticks < MaxControlTicks
          /\ FlushEffect(id)
          /\ UNCHANGED <<sessionId, switches, fnVars, outside>>
    \/ /\ clicks < MaxControlClicks
       /\ StopAudio
       /\ UNCHANGED <<sessionId, switches, fnVars, outside>>
    \/ \E p \in pending, id \in ControlFrames :
          /\ ticks < MaxControlTicks
          /\ AnimationFrame(p, id)
          /\ UNCHANGED <<sessionId, switches, fnVars, outside>>

SpecControl == InitControl /\ [][NextControl]_vars

(***************************************************************************)
(* App (src/unnamed/part_002): the two logs.                               *)
(***************************************************************************)
\* variant: the new record put in front
AppHandleVoiceAnalyzedInFront(prev, result) == <<result>> \o prev

\* setEmotionData(prev => [...prev, result]), line 33
AppHandleEmotionDetected(prev, result) == Append(prev, result)

\* setVoiceData(prev => [...prev, result]), line 37
AppHandleVoiceAnalyzed(prev, result) == Append(prev, result)

\* clearData, lines 40-43
ClearData ==
    /\ emotionData' = <<>>
    /\ voiceData' = <<>>
    /\ clearCount' = clearCount + 1
    /\ UNCHANGED <<emotionCount, voiceCount>>

(***************************************************************************)
(* EmotionDetector (src/src/components/AudioAnalyzer.tsx, lines 452-926):  *)
(* camera, recording and the emotion interval.  isActive is its            *)
(* isRecording, which it hands to the AudioAnalyzer.  Clicks are rendered  *)
(* and their effects flushed with the event; the updates of promise        *)
(* continuations and of video events are rendered later (FlushDetector).   *)
(***************************************************************************)
CameraStates == {"idle", "requesting", "active", "error"}

\* the mock detector's labels that matter downstream, of the seven of line 498
DetectorEmotions == {"neutral", "angry"}

\* the effect of lines 689-695: the previous interval cleared, a new one set
\* with the processFrame of the new render
RunIntervalEffect ==
    emotionInterval' =
        IF isActive' /\ cameraState' = "active"
        THEN [set |-> TRUE, isRecording |-> isActive',
              cameraState |-> cameraState', sessionId |-> sessionId]
        ELSE NoInterval

\* initializeCamera up to the await, lines 551-575: the state after the
\* batch setCameraState('requesting'), stopCamera()
InitializeCameraStart ==
    /\ cameraState' = "idle"
    /\ isActive' = FALSE
    /\ videoReady' = FALSE
    /\ videoSource' = FALSE
    /\ cameraRequests' = cameraRequests + 1
    /\ detectorDirty' = FALSE
    /\ RunIntervalEffect
    /\ UNCHANGED <<lastFrame, app>>

\* handleConsentAndStart, lines 718-721
HandleConsentAndStart ==
    /\ ~hasConsent
    /\ hasConsent' = TRUE
    /\ InitializeCameraStart

\* initializeCamera from the buttons of lines 782 and 837
InitializeCameraClick ==
    /\ ~detectorDirty
    /\ hasConsent /\ cameraState \in {"idle", "error"}
    /\ UNCHANGED hasConsent
    /\ InitializeCameraStart

\* getUserMedia resolved, lines 576-645: the stream and the listeners are
\* put on the video element
CameraResolve ==
    /\ cameraRequests > 0
    /\ cameraRequests' = cameraRequests - 1
    /\ videoSource' = TRUE
    /\ UNCHANGED <<isActive, hasConsent, cameraState, videoReady,
                   emotionInterval, detectorDirty, lastFrame, app>>

\* getUserMedia rejected, lines 647-660
CameraReject ==
    /\ cameraRequests > 0
    /\ cameraRequests' = cameraRequests - 1
    /\ cameraState' = "error"
    /\ detectorDirty' = (detectorDirty \/ cameraState # "error")
    /\ UNCHANGED <<isActive, hasConsent, videoReady, videoSource,
                   emotionInterval, lastFrame, app>>

\* handleLoadedMetadata, lines 594-607
HandleLoadedMetadata ==
    /\ videoSource
    /\ videoReady' = TRUE
    /\ UNCHANGED <<isActive, hasConsent, cameraState, cameraRequests,
                   videoSource, emotionInterval, detectorDirty, lastFrame, app>>

\* handleCanPlay, lines 609-622; played: video.play() resolved
HandleCanPlay(played) ==
    /\ videoSource
    /\ cameraState' = IF played THEN "active" ELSE "error"
    /\ detectorDirty' = (detectorDirty \/ cameraState' # cameraState)
    /\ UNCHANGED <<isActive, hasConsent, videoReady, cameraRequests,
                   videoSource, emotionInterval, lastFrame, app>>

\* handleError, lines 624-628
HandleError ==
    /\ videoSource
    /\ cameraState' = "error"
    /\ detectorDirty' = (detectorDirty \/ cameraState # "error")
    /\ UNCHANGED <<isActive, hasConsent, videoReady, cameraRequests,
                   videoSource, emotionInterval, lastFrame, app>>

\* toggleRecording, lines 703-706, from the button of line 860
ToggleRecording ==
    /\ ~detectorDirty
    /\ cameraState = "active"
    /\ isActive' = ~isActive
    /\ UNCHANGED <<hasConsent, cameraState, videoReady, cameraRequests,
                   videoSource, detectorDirty, lastFrame, app>>
    /\ RunIntervalEffect

\* the render after the updates of a continuation or a video event
FlushDetector ==
    /\ detectorDirty
    /\ detectorDirty' = FALSE
    /\ UNCHANGED <<isActive, hasConsent, cameraState, videoReady,
                   cameraRequests, videoSource, lastFrame, app>>
    /\ RunIntervalEffect

\* the interval fires: processFrame, lines 671-687, in the closure of the
\* interval, detecting emotion e
ProcessFrame(e) ==
    /\ emotionInterval.set
    /\ UNCHANGED <<isActive, hasConsent, cameraState, videoReady,
                   cameraRequests, videoSource, emotionInterval,
                   detectorDirty>>
    /\ IF ~emotionInterval.isRecording
          \/ emotionInterval.cameraState # "active"
       THEN UNCHANGED <<lastFrame, app>>
       ELSE /\ emotionCount' = emotionCount + 1
            /\ emotionData' =
                   AppHandleEmotionDetected(
                       emotionData,
                       [id |-> emotionCount', emotion |-> e,
                        sessionId |-> emotionInterval.sessionId])
            /\ lastFrame' = [ran |-> TRUE, isRecording |-> isActive,
                             cameraState |-> cameraState]
            /\ UNCHANGED <<voiceData, voiceCount, clearCount>>

\* the AudioAnalyzer emits a record: handleVoiceAnalyzed, lines 723-727,
\* and the App's handler
HandleVoiceAnalyzed(state) ==
    /\ hasConsent
    /\ voiceCount' = voiceCount + 1
    /\ voiceData' =
           AppHandleVoiceAnalyzed(
               voiceData,
               [id |-> voiceCount', emotionalState |-> state,
                sessionId |-> sessionId])
    /\ UNCHANGED <<isActive, detector, emotionData, emotionCount, clearCount>>

\* The Clear button of the DataLogger (onClearData is the App's clearData).
\* The App mounts one tab at a time: the detector is unmounted on the way to
\* the logs tab, and a new one, with a new session id, is mounted on the way
\* back.
ClearDataOnLogsTab ==
    /\ ClearData
    /\ sessionId' \in SessionIds \ {sessionId}
    /\ isActive' = FALSE
    /\ hasConsent' = FALSE
    /\ cameraState' = "idle"
    /\ videoReady' = FALSE
    /\ cameraRequests' = 0
    /\ videoSource' = FALSE
    /\ emotionInterval' = NoInterval
    /\ detectorDirty' = FALSE
    /\ lastFrame' = NoFrame

InitDetector ==
    /\ Init
    /\ sessionId = "session_1"

\* what no step of the detector and the App changes
AppFrame == UNCHANGED <<analyzer, switches, fnVars, logger, cli>>

\* what no step of one detector changes
DetectorFrame == UNCHANGED sessionId /\ AppFrame

NextDetector ==
    \/ /\ clicks < MaxDetectorEvents
       /\ HandleConsentAndStart
       /\ clicks' = clicks + 1 /\ DetectorFrame
    \/ /\ clicks < MaxDetectorEvents
       /\ InitializeCameraClick
       /\ clicks' = clicks + 1 /\ DetectorFrame
    \/ /\ CameraResolve
       /\ UNCHANGED clicks /\ DetectorFrame
    \/ /\ CameraReject
       /\ UNCHANGED clicks /\ DetectorFrame
    \/ /\ clicks < MaxDetectorEvents
       /\ HandleLoadedMetadata
       /\ clicks' = clicks + 1 /\ DetectorFrame
    \/ \E played \in BOOLEAN :
          /\ clicks < MaxDetectorEvents
          /\ HandleCanPlay(played)
          /\ clicks' = clicks + 1 /\ DetectorFrame
    \/ /\ clicks < MaxDetectorEvents
       /\ HandleError
       /\ clicks' = clicks + 1 /\ DetectorFrame
    \/ /\ clicks < MaxDetectorEvents
       /\ ToggleRecording
       /\ clicks' = clicks + 1 /\ DetectorFrame
    \/ /\ FlushDetector
       /\ UNCHANGED clicks /\ DetectorFrame
    \/ \E e \in DetectorEmotions :
          /\ emotionCount + voiceCount < MaxRecords
          /\ ProcessFrame(e)
          /\ UNCHANGED clicks /\ DetectorFrame
    \/ \E state \in {"calm", "deceptive"} :
          /\ emotionCount + voiceCount < MaxRecords
          /\ HandleVoiceAnalyzed(state)
          /\ UNCHANGED clicks /\ DetectorFrame
    \/ /\ clearCount < 1
       /\ ClearDataOnLogsTab
       /\ UNCHANGED clicks /\ AppFrame

SpecDetector == InitDetector /\ [][NextDetector]_vars

(***************************************************************************)
(* DataLogger (src/src/components/DataLogger.tsx): the session filter.     *)
(* It is mounted on the logs tab with the App's logs as its props; while   *)
(* it is mounted the props change through clearData only.                  *)
(***************************************************************************)
\* variant: the records of the other sessions kept
FilterSessionOthers(items, selected) ==
    IF selected = "all" THEN items
    ELSE SelectSeq(items, LAMBDA item : item.sessionId # selected)

\* the body of the effect of lines 38-46, for one of the two logs
FilterSession(items, selected) ==
    IF selected = "all" THEN items
    ELSE SelectSeq(items, LAMBDA item : item.sessionId = selected)

\* line 36: the sessions offered by the select
Sessions ==
    {emotionData[i].sessionId : i \in DOMAIN emotionData}
        \cup {voiceData[i].sessionId : i \in DOMAIN voiceData}

\* logs of at most MaxLogLen records, of any of the sessions
EmotionLogs ==
    UNION {{[i \in 1..n |-> [id |-> i, emotion |-> "neutral",
                             sessionId |-> sid[i]]] :
               sid \in [1..n -> SessionIds]} : n \in 0..MaxLogLen}

VoiceLogs ==
    UNION {{[i \in 1..n |-> [id |-> i, emotionalState |-> "calm",
                             sessionId |-> sid[i]]] :
               sid \in [1..n -> SessionIds]} : n \in 0..MaxLogLen}

\* the DataLogger mounted on some logs; the effect of the mount has not run
InitLogger ==
    /\ ComponentInit
    /\ sessionId = "session_1"
    /\ fnArgs = NoCall /\ fnResult = NoCall
    /\ hasConsent = FALSE /\ cameraState = "idle" /\ videoReady = FALSE
    /\ cameraRequests = 0 /\ videoSource = FALSE
    /\ emotionInterval = NoInterval /\ detectorDirty = FALSE
    /\ lastFrame = NoFrame
    /\ emotionData \in EmotionLogs
    /\ voiceData \in VoiceLogs
    /\ emotionCount = Len(emotionData)
    /\ voiceCount = Len(voiceData)
    /\ clearCount = 0
    /\ selectedSession = "all"
    /\ filteredData = <<>>
    /\ filteredVoiceData = <<>>
    /\ filterDirty = TRUE
    /\ emotionHistory = <<>> /\ detectionCount = 0 /\ detections = <<>>

\* what no step of the DataLogger changes
LoggerFrame ==
    UNCHANGED <<sessionId, flags, analyzer, switches, fnVars, detector, cli>>

\* the select of lines 141-152
SelectSession(session) ==
    /\ session \in Sessions \cup {"all"}
    /\ session # selectedSession
    /\ selectedSession' = session
    /\ filterDirty' = TRUE
    /\ clicks' = clicks + 1
    /\ UNCHANGED <<filteredData, filteredVoiceData, app>>

\* the Clear button, line 170: the props become empty logs
LoggerClearData ==
    /\ ClearData
    /\ filterDirty' = TRUE
    /\ UNCHANGED <<selectedSession, filteredData, filteredVoiceData, clicks>>

\* the effect of lines 38-46
FilterEffect ==
    /\ filterDirty
    /\ filteredData' = FilterSession(emotionData, selectedSession)
    /\ filteredVoiceData' = FilterSession(voiceData, selectedSession)
    /\ filterDirty' = FALSE
    /\ UNCHANGED <<selectedSession, app, clicks>>

NextLogger ==
    \/ \E session \in SessionIds \cup {"all"} :
          /\ clicks < MaxSelections
          /\ SelectSession(session)
          /\ LoggerFrame
    \/ /\ clearCount < 1
       /\ LoggerClearData
       /\ LoggerFrame
    \/ /\ FilterEffect
       /\ LoggerFrame

SpecLogger == InitLogger /\ [][NextLogger]_vars

(***************************************************************************)
(* The CLI (src/unnamed/part_000): updateAnalysis, called by processVideo  *)
(* once per frame read.  Confidences are in 1/1000.                        *)
(***************************************************************************)
HistoryLimit == 20

CliDetections ==
    {[emotion |-> "neutral", confidence |-> 600],
     [emotion |-> "angry", confidence |-> 900]}

\* variant: the newest entry dropped when the history is full
PushEmotionHistoryDropNewest(history, detection) ==
    LET pushed == Append(history, detection)
    IN  IF Len(pushed) > HistoryLimit
        THEN SubSeq(pushed, 1, Len(pushed) - 1)
        ELSE pushed

\* lines 270-279: push, then shift when more than 20 entries are held
PushEmotionHistory(history, detection) ==
    LET pushed == Append(history, detection)
    IN  IF Len(pushed) > HistoryLimit THEN Tail(pushed) ELSE pushed

\* the constructor, lines 8-76
InitCli == Init /\ sessionId = "session_1"

UpdateAnalysis(detection) ==
    /\ detectionCount' = detectionCount + 1
    /\ emotionHistory' = PushEmotionHistory(emotionHistory, detection)
    /\ detections' = Append(detections, detection)

\* a change of the detected emotion from one frame to the next
EmotionChanges(detection) ==
    /\ detections # <<>>
    /\ detections[Len(detections)].emotion # detection.emotion

NextCli ==
    \E detection \in CliDetections :
       /\ Len(detections) < MaxDetections
       /\ switches + (IF EmotionChanges(detection) THEN 1 ELSE 0)
              <= MaxSwitches
       /\ UpdateAnalysis(detection)
       /\ switches' =
              switches + (IF EmotionChanges(detection) THEN 1 ELSE 0)
       /\ UNCHANGED <<sessionId, flags, analyzer, clicks, fnVars,
                      detector, app, logger>>

SpecCli == InitCli /\ [][NextCli]_vars

(***************************************************************************)
(* determineEmotionalState applied to score tuples around its thresholds.  *)
(***************************************************************************)
StressGrid == {0, 299, 300, 400, 401, 500, 501, 700, 701, 800, 1000}
ConfidenceGrid == {200, 399, 400, 700, 701, 1000}
PitchVarGrid == {0, 400, 401, 500, 501, 600, 601, 1000}
SpeechRateGrid == {0, 399, 400, 500, 1000}

InitClassifier ==
    /\ ComponentInit
    /\ OutsideInit
    /\ fnArgs \in [op : {"determineEmotionalState"}, stress : StressGrid,
                   confidence : ConfidenceGrid, pitchVar : PitchVarGrid,
                   speechRate : SpeechRateGrid]
    /\ fnResult = NoCall

Classify ==
    /\ fnResult = NoCall
    /\ fnResult' = [op |-> fnArgs.op,
                    state |-> DetermineEmotionalState(
                                  fnArgs.stress, fnArgs.confidence,
                                  fnArgs.pitchVar, fnArgs.speechRate)]
    /\ UNCHANGED <<sessionId, flags, histories, loop, awaiting, effectDirty,
                   ghosts, clicks, switches, fnArgs, outside>>

NextClassifier == Classify

SpecClassifier == InitClassifier /\ [][NextClassifier]_vars

(***************************************************************************)
(* The feature and score functions applied in isolation, to arguments      *)
(* drawn from bounded sets: every history of at most MaxHistLen samples.   *)
(***************************************************************************)
\* pitches of bins 3, 7 and 12 of a 1024-bin spectrum, in 1/10 Hz
PitchSamples == {645, 1507, 2583}
\* audio levels that pass the gate of analyzeAudio
LevelSamples == {6, 20, 80}

Histories(samples) == UNION {[1..k -> samples] : k \in 0..MaxHistLen}

\* levels around the threshold of calculateSpeechRate
RateSamples == {10, 11, 80}
\* a history is full at HistoryKeep + 1 samples
HistoryCapacity == HistoryKeep + 1

\* the histories up to the capacity that change value at most once
TwoRunHistories(samples) ==
    {[i \in 1..n |-> IF i <= k THEN a ELSE b] :
        n \in 0..HistoryCapacity, k \in 0..HistoryCapacity,
        a \in samples, b \in samples}

JitterArgs ==
    [op : {"calculateJitter"}, history : Histories(PitchSamples),
     current : PitchSamples]

ShimmerArgs ==
    [op : {"calculateShimmer"}, history : Histories(LevelSamples),
     current : LevelSamples]

\* float spectra of several lengths, the empty one included: flat at a base
\* level, with at most one bin standing out
SpectrumLens == {0, 1, 16, FrequencyBinCount}
SpectrumBases == {NegInf, -100, -10, 0}
SpectrumPeaks ==
    {NoPeaks} \cup {(i :> dB) : i \in {0, 3, 12}, dB \in {0, 10}}

SpectraOfLen(len) ==
    {Frame(len, base, peaks, 0) :
        base \in SpectrumBases,
        peaks \in {pk \in SpectrumPeaks : \A i \in DOMAIN pk : i < len}}

Spectra == UNION {SpectraOfLen(len) : len \in SpectrumLens}

SpectralFeaturesArgs == [op : {"spectralFeatures"}, frame : Spectra]

\* levels around the optimal volume range, and values of [0, 1] for jitter,
\* shimmer and highFreqEnergy; centroids (in 1/1000 bin) around 0.6 and at
\* bin 7, at 0.6 of the bin count and beyond
VolumeGrid == {6, 19, 20, 21, 50, 79, 80, 81, 100}
UnitGrid == {0, 200, 500, 1000}
CentroidGrid == {0, 600, 601, 7000, 614400, 800000}

ConfidenceLevelArgs ==
    [op : {"calculateConfidenceLevel"}, volume : VolumeGrid,
     jitter : UnitGrid, shimmer : UnitGrid]

StressLevelArgs ==
    [op : {"calculateStressLevel"}, highFreqEnergy : UnitGrid,
     jitter : UnitGrid, shimmer : UnitGrid, spectralCentroid : CentroidGrid]

\* the inputs of the scoring step of performVoiceStressAnalysis: the level,
\* the features, and the two history scores that reach the classifier
ScoringArgs ==
    [op : {"scoring"}, volume : VolumeGrid, highFreqEnergy : {0, 1000},
     jitter : UnitGrid, shimmer : UnitGrid, spectralCentroid : {0, 7000},
     pitchVariation : {0, 450, 550, 1000}, speechRate : {300, 500}]

PitchVariationArgs ==
    [op : {"calculatePitchVariation"}, history : Histories(PitchSamples)]

SpeechRateArgs ==
    [op : {"calculateSpeechRate"}, history : TwoRunHistories(RateSamples)]

VolumeConsistencyArgs ==
    [op : {"calculateVolumeConsistency"}, history : Histories(LevelSamples)]

FunctionArgs ==
    JitterArgs \cup ShimmerArgs \cup PitchVariationArgs \cup SpeechRateArgs
        \cup VolumeConsistencyArgs \cup SpectralFeaturesArgs
        \cup ConfidenceLevelArgs \cup StressLevelArgs \cup ScoringArgs

InitFunctions ==
    /\ ComponentInit
    /\ OutsideInit
    /\ fnArgs \in FunctionArgs
    /\ fnResult = NoCall

\* the call returns: nothing of the component changes
Returns(op, value) ==
    /\ fnArgs.op = op
    /\ fnResult = NoCall
    /\ fnResult' = [op |-> op, value |-> value]
    /\ UNCHANGED <<sessionId, flags, histories, loop, awaiting, effectDirty,
                   ghosts, clicks, switches, fnArgs, outside>>

ApplyJitter ==
    /\ fnArgs.op = "calculateJitter"
    /\ Returns("calculateJitter",
               CalculateJitter(fnArgs.history, fnArgs.current))

ApplyShimmer ==
    /\ fnArgs.op = "calculateShimmer"
    /\ Returns("calculateShimmer",
               CalculateShimmer(fnArgs.history, fnArgs.current))

ApplyPitchVariation ==
    /\ fnArgs.op = "calculatePitchVariation"
    /\ Returns("calculatePitchVariation",
               CalculatePitchVariation(fnArgs.history))

ApplySpeechRate ==
    /\ fnArgs.op = "calculateSpeechRate"
    /\ Returns("calculateSpeechRate", CalculateSpeechRate(fnArgs.history))

ApplyVolumeConsistency ==
    /\ fnArgs.op = "calculateVolumeConsistency"
    /\ Returns("calculateVolumeConsistency",
               CalculateVolumeConsistency(fnArgs.history))

\* the three features computed from frequencyData alone, lines 126-128
ApplySpectralFeatures ==
    /\ fnArgs.op = "spectralFeatures"
    /\ Returns("spectralFeatures",
               [fundamentalFreq |-> DetectFundamentalFrequency(fnArgs.frame),
                highFreqEnergy |-> CalculateHighFrequencyEnergy(fnArgs.frame),
                spectralCentroid |-> CalculateSpectralCentroid(fnArgs.frame)])

ApplyConfidenceLevel ==
    /\ fnArgs.op = "calculateConfidenceLevel"
    /\ Returns("calculateConfidenceLevel",
               CalculateConfidenceLevel(fnArgs.volume, fnArgs.jitter,
                                        fnArgs.shimmer))

ApplyStressLevel ==
    /\ fnArgs.op = "calculateStressLevel"
    /\ Returns("calculateStressLevel",
               CalculateStressLevel(fnArgs.highFreqEnergy, fnArgs.jitter,
                                    fnArgs.shimmer, fnArgs.spectralCentroid))

\* lines 140-145: stress and confidence from the features, then the state
ApplyScoring ==
    /\ fnArgs.op = "scoring"
    /\ LET stressLevel ==
               CalculateStressLevel(fnArgs.highFreqEnergy, fnArgs.jitter,
                                    fnArgs.shimmer, fnArgs.spectralCentroid)
           confidenceLevel ==
               CalculateConfidenceLevel(fnArgs.volume, fnArgs.jitter,
                                        fnArgs.shimmer)
       IN Returns("scoring",
                  [stressLevel |-> stressLevel,
                   confidenceLevel |-> confidenceLevel,
                   emotionalState |->
                       DetermineEmotionalState(stressLevel, confidenceLevel,
                                               fnArgs.pitchVariation,
                                               fnArgs.speechRate)])

NextFunctions ==
    \/ ApplyJitter
    \/ ApplyShimmer
    \/ ApplyPitchVariation
    \/ ApplySpeechRate
    \/ ApplyVolumeConsistency
    \/ ApplySpectralFeatures
    \/ ApplyConfidenceLevel
    \/ ApplyStressLevel
    \/ ApplyScoring

SpecFunctions == InitFunctions /\ [][NextFunctions]_vars

(***************************************************************************)
(* The Dashboard (src/unnamed/part_001): calculateDeceptionRisk applied to *)
(* the props of a render.  Levels are in 1/1000.                           *)
(***************************************************************************)
HighRiskEmotions == {"fear", "guilt", "contempt", "angry"}

RecentEmotionCount == 5
RecentVoiceCount == 3
HighStressLevel == 700
LowConfidenceLevel == 400

\* the number of items of a list that satisfy a test
CountOf(items, Test(_)) == Len(SelectSeq(items, Test))

\* variant: the sum of the weights returned as it is
CalculateDeceptionRiskUnclamped(data, voice) ==
    LET recentEmotions == SliceLast(data, RecentEmotionCount)
        recentVoice == SliceLast(voice, RecentVoiceCount)
        highRiskEmotions ==
            CountOf(recentEmotions, LAMBDA e : e.emotion \in HighRiskEmotions)
        highStress ==
            CountOf(recentVoice, LAMBDA v : v.stressLevel > HighStressLevel)
        deceptiveVoice ==
            CountOf(recentVoice, LAMBDA v : v.emotionalState = "deceptive")
        lowConfidence ==
            CountOf(recentVoice,
                    LAMBDA v : v.confidenceLevel < LowConfidenceLevel)
        emotionFactor == highRiskEmotions > 2
        stressFactor == highStress > 1
        deceptiveFactor == deceptiveVoice > 0
        confidenceFactor == lowConfidence > 1
    IN  [riskScore |->
             (IF emotionFactor THEN 30 ELSE 0)
                 + (IF stressFactor THEN 25 ELSE 0)
                 + (IF deceptiveFactor THEN 35 ELSE 0)
                 + (IF confidenceFactor THEN 20 ELSE 0),
         factors |->
             (IF emotionFactor
              THEN <<"Multiple stress emotions detected">> ELSE <<>>)
                 \o (IF stressFactor
                     THEN <<"Elevated voice stress patterns">> ELSE <<>>)
                 \o (IF deceptiveFactor
                     THEN <<"Deceptive voice patterns detected">> ELSE <<>>)
                 \o (IF confidenceFactor
                     THEN <<"Low confidence indicators">> ELSE <<>>)]

\* lines 153-190
CalculateDeceptionRisk(data, voice) ==
    LET recentEmotions == SliceLast(data, RecentEmotionCount)
        recentVoice == SliceLast(voice, RecentVoiceCount)
        highRiskEmotions ==
            CountOf(recentEmotions, LAMBDA e : e.emotion \in HighRiskEmotions)
        highStress ==
            CountOf(recentVoice, LAMBDA v : v.stressLevel > HighStressLevel)
        deceptiveVoice ==
            CountOf(recentVoice, LAMBDA v : v.emotionalState = "deceptive")
        lowConfidence ==
            CountOf(recentVoice,
                    LAMBDA v : v.confidenceLevel < LowConfidenceLevel)
        emotionFactor == highRiskEmotions > 2
        stressFactor == highStress > 1
        deceptiveFactor == deceptiveVoice > 0
        confidenceFactor == lowConfidence > 1
        riskScore ==
            (IF emotionFactor THEN 30 ELSE 0)
                + (IF stressFactor THEN 25 ELSE 0)
                + (IF deceptiveFactor THEN 35 ELSE 0)
                + (IF confidenceFactor THEN 20 ELSE 0)
    IN  [riskScore |-> Min(riskScore, 100),
         factors |->
             (IF emotionFactor
              THEN <<"Multiple stress emotions detected">> ELSE <<>>)
                 \o (IF stressFactor
                     THEN <<"Elevated voice stress patterns">> ELSE <<>>)
                 \o (IF deceptiveFactor
                     THEN <<"Deceptive voice patterns detected">> ELSE <<>>)
                 \o (IF confidenceFactor
                     THEN <<"Low confidence indicators">> ELSE <<>>)]

\* the props of a render: emotion records, and voice records at and beyond
\* the thresholds of the stress and confidence tests
DashboardEmotions ==
    UNION {[1..n -> {[emotion |-> "happy"], [emotion |-> "angry"]}] :
               n \in 0..MaxEmotionRecords}

DashboardVoiceRecords ==
    {[stressLevel |-> 700, confidenceLevel |-> 400, emotionalState |-> "calm"],
     [stressLevel |-> 701, confidenceLevel |-> 400, emotionalState |-> "calm"],
     [stressLevel |-> 700, confidenceLevel |-> 399, emotionalState |-> "calm"],
     [stressLevel |-> 701, confidenceLevel |-> 399,
      emotionalState |-> "deceptive"]}

DashboardVoice ==
    UNION {[1..n -> DashboardVoiceRecords] : n \in 0..MaxVoiceRecords}

DashboardArgs ==
    {[op |-> "calculateDeceptionRisk", data |-> d, voiceData |-> v] :
         d \in DashboardEmotions, v \in DashboardVoice}

InitDashboard ==
    /\ ComponentInit
    /\ OutsideInit
    /\ sessionId = "session_1"
    /\ fnArgs \in DashboardArgs
    /\ fnResult = NoCall

\* line 192: const deceptionAnalysis = calculateDeceptionRisk()
RenderDashboard ==
    Returns("calculateDeceptionRisk",
            CalculateDeceptionRisk(fnArgs.data, fnArgs.voiceData))

NextDashboard == RenderDashboard

SpecDashboard == InitDashboard /\ [][NextDashboard]_vars

(***************************************************************************)
(* Properties.                                                             *)
(***************************************************************************)
Emitted == lastTick.ran /\ lastTick.emits = 1

Front(s) == SubSeq(s, 1, Len(s) - 1)

UnitRange == 0..1000

\* C1: a tick whose level is <= 5 calls onVoiceAnalyzed not at all and leaves
\* the voice, pitch and volume histories as they were.
C1_QuietTickLeavesHistories ==
    (lastTick.ran /\ lastTick.level <= 5) =>
        /\ lastTick.emits = 0
        /\ emitCount = lastTick.preEmit
        /\ voiceHistory = lastTick.preVoice
        /\ pitchHistory = lastTick.prePitch
        /\ volumeHistory = lastTick.preVolume

C1_Witness ==
    /\ lastTick.ran /\ lastTick.level = 5
    /\ pitchHistory # <<>>

\* C2: on every emitting tick, jitter and shimmer read the history that holds
\* exactly the values pushed by all earlier emitting ticks, capped to the
\* last 20.
C2_JitterReadsAllEarlierPushes ==
    Emitted =>
        /\ lastTick.cl.pitchHistory = SliceLast(Front(pushedPitch), 20)
        /\ lastTick.cl.volumeHistory = SliceLast(Front(pushedVolume), 20)

\* C3: on every emitting tick, pitchVariation is the clamped standard
\* deviation of the pitch history that includes the tick's own fundamental
\* frequency.
C3_PitchVariationIncludesCurrentTick ==
    Emitted =>
        lastTick.r.analysis.pitchVariation = CalculatePitchVariation(pitchHistory)

\* C4: each history holds the last min(n, 20) of the n values pushed on it, in
\* push order.
C4_HistoryIsLastTwentyPushed ==
    /\ pitchHistory = SliceLast(pushedPitch, 20)
    /\ volumeHistory = SliceLast(pushedVolume, 20)
    /\ voiceHistory = SliceLast(pushedVolume, 20)
    /\ Len(pitchHistory) = Min(Len(pushedPitch), 20)
    /\ Len(volumeHistory) = Min(Len(pushedVolume), 20)

C4_Witness ==
    /\ Len(pushedPitch) > 20
    /\ pushedPitch[1] # pushedPitch[Len(pushedPitch)]
    /\ pitchHistory # SubSeq(pushedPitch, 1, 20)

\* C5: determineEmotionalState is the ordered list of six rules with strict
\* comparisons, the first matching rule deciding; stress > 0.7 gives stressed
\* whatever else matches.
C5_OrderedDecisionList ==
    fnResult # NoCall =>
        LET s == fnArgs.stress
            c == fnArgs.confidence
            pv == fnArgs.pitchVar
            sr == fnArgs.speechRate
            out == fnResult.state
            r1 == s > 700
            r2 == c > 700 /\ s < 300
            r3 == pv > 600 /\ sr < 400
            r4 == s > 500 /\ pv > 500
            r5 == s > 400 /\ c < 400 /\ pv > 400
        IN /\ out \in EmotionalStates
           /\ r1 => out = "stressed"
           /\ (~r1 /\ r2) => out = "confident"
           /\ (~r1 /\ ~r2 /\ r3) => out = "uncertain"
           /\ (~r1 /\ ~r2 /\ ~r3 /\ r4) => out = "anxious"
           /\ (~r1 /\ ~r2 /\ ~r3 /\ ~r4 /\ r5) => out = "deceptive"
           /\ (~r1 /\ ~r2 /\ ~r3 /\ ~r4 /\ ~r5) => out = "calm"

C5_Witness ==
    /\ fnResult # NoCall
    /\ fnArgs.stress = 800 /\ fnArgs.pitchVar = 600
    /\ fnResult.state = "stressed"

\* scenario B: the first tick, histories empty, level 20, one 0 dB bin at
\* about 150 Hz in a -100 dB spectrum
ScenarioB ==
    /\ Emitted
    /\ lastTick.frame = "speech" /\ lastTick.level = 20
    /\ lastTick.prePitch = <<>> /\ lastTick.preVolume = <<>>
    /\ lastTick.preVoice = <<>>
    /\ lastTick.cl.pitchHistory = <<>> /\ lastTick.cl.volumeHistory = <<>>
    /\ lastTick.cl.voiceHistory = <<>>

ScenarioBFeatures ==
    /\ Abs(lastTick.r.fundamentalFreq - 1500) <= 10
    /\ lastTick.r.highFreqEnergy <= 1
    /\ lastTick.r.analysis.stressLevel < 300

\* C6 as stated: scenario B gives about 150 Hz, highFreqEnergy near 0, a low
\* stressLevel and the state calm.
C6_ScenarioBCalm ==
    ScenarioB =>
        ScenarioBFeatures /\ lastTick.r.analysis.emotionalState = "calm"

\* C6 amended: scenario B gives about 150 Hz, highFreqEnergy near 0,
\* stressLevel 0.2, confidenceLevel 0.8 and the state confident.
C6_ScenarioBConfident ==
    ScenarioB =>
        /\ ScenarioBFeatures
        /\ lastTick.r.analysis.stressLevel = 200
        /\ lastTick.r.analysis.confidenceLevel = 800
        /\ lastTick.r.analysis.emotionalState = "confident"

C6_Witness == ScenarioB

\* C7: a tick whose level is > 5 calls onVoiceAnalyzed exactly once, and no
\* tick calls it more than once.
C7_OneAnalysisPerLoudTick ==
    lastTick.ran =>
        /\ lastTick.level > 5 => (lastTick.emits = 1 /\ emitCount = lastTick.preEmit + 1)
        /\ lastTick.emits <= 1
        /\ emitCount <= lastTick.preEmit + 1

C7_Witness ==
    /\ Emitted /\ lastTick.level = 6
    /\ emitCount >= 2

VoiceBand(fr) ==
    {i \in 0..(fr.len - 1) :
        /\ VoiceLowHz * fr.len <= i * NyquistRef
        /\ i * NyquistRef <= VoiceHighHz * fr.len}

BandPeakFrequency(fr) ==
    LET band == VoiceBand(fr)
        peak == CHOOSE i \in band :
                    \A j \in band :
                        \/ At(fr, i) > At(fr, j)
                        \/ At(fr, i) = At(fr, j) /\ i <= j
    IN IF band = {} THEN 0 ELSE BinFrequency(peak, fr.len)

BandPeakOf == [id \in FrameIds |-> BandPeakFrequency(FrameOf(id))]

\* C9: detectFundamentalFrequency returns the frequency of the strongest bin,
\* the lowest on ties, among the bins whose frequency is in [80, 300] Hz, and
\* 0 when there is none; a result other than 0 is in [80, 300] Hz.
C9_FundamentalIsBandPeak ==
    Emitted =>
        /\ lastTick.r.fundamentalFreq = BandPeakOf[lastTick.frame]
        /\ lastTick.r.fundamentalFreq # 0 =>
               (lastTick.r.fundamentalFreq >= 10 * VoiceLowHz
                /\ lastTick.r.fundamentalFreq <= 10 * VoiceHighHz)

\* C10: after an emitting tick the newest pitch is the tick's fundamental
\* frequency and the newest volume and voice entries are its level; the scores
\* were computed from histories as they were at some moment before this push.
C10_PushAfterScores ==
    Emitted =>
        /\ Last(pitchHistory) = lastTick.r.fundamentalFreq
        /\ Last(volumeHistory) = lastTick.level
        /\ Last(voiceHistory) = lastTick.level
        /\ \E k \in 0..(Len(pushedPitch) - 1) :
              /\ lastTick.cl.pitchHistory = SliceLast(SubSeq(pushedPitch, 1, k), 20)
              /\ lastTick.cl.volumeHistory = SliceLast(SubSeq(pushedVolume, 1, k), 20)
              /\ lastTick.cl.voiceHistory = SliceLast(SubSeq(pushedVolume, 1, k), 20)
        /\ lastTick.r = PerformVoiceStressAnalysis(lastTick.cl, lastTick.frame,
                                                   lastTick.level)

C10_Witness ==
    /\ Emitted
    /\ Len(pitchHistory) >= 3
    /\ pitchHistory[Len(pitchHistory) - 1] # Last(pitchHistory)
    /\ lastTick.cl.pitchHistory # lastTick.prePitch

\* C11: calculateJitter and calculateShimmer return exactly 0 when the history
\* they are handed has 0, 1 or 2 entries, whatever the current value is.
C11_ShortHistoryGivesZero ==
    (/\ fnResult.op \in {"calculateJitter", "calculateShimmer"}
     /\ Len(fnArgs.history) < 3) =>
        fnResult.value = 0

C11_Witness ==
    /\ fnResult.op = "calculateJitter"
    /\ Len(fnArgs.history) = 2
    /\ fnArgs.history[1] # fnArgs.history[2]
    /\ fnArgs.current # fnArgs.history[2]
    /\ fnResult.value = 0

\* C12: pitchVariation is 0 on fewer than 5 pitch samples, speechRate 0.5 on
\* fewer than 10 voice samples, volumeConsistency 1 on fewer than 5 volume
\* samples; on exactly 5, 10 and 5 samples the value is the formula's.
C12_InsufficientHistoryDefaults ==
    LET h == fnArgs.history
    IN /\ fnResult.op = "calculatePitchVariation" =>
              /\ Len(h) < 5 => fnResult.value = 0
              /\ Len(h) = 5 => fnResult.value = Min(Sqrt(Variance(h)), 1000)
       /\ fnResult.op = "calculateSpeechRate" =>
              /\ Len(h) < 10 => fnResult.value = 500
              /\ Len(h) = 10 =>
                     fnResult.value =
                         100 * Cardinality({i \in 1..10 : h[i] > 10})
       /\ fnResult.op = "calculateVolumeConsistency" =>
              /\ Len(h) < 5 => fnResult.value = 1000
              /\ Len(h) = 5 =>
                     fnResult.value =
                         Max(1000 - Sqrt(Variance(h) * 10000) \div 5, 0)

C12_Witness ==
    /\ fnResult.op = "calculatePitchVariation"
    /\ Len(fnArgs.history) = 5
    /\ fnResult.value > 0

\* C13: when the same frame (level > 5) is fed N times from empty histories,
\* every history has length min(N, 20) after the N-th tick, and from the
\* third tick on jitter and shimmer are 0.
C13_IdenticalFramesStabilise ==
    (lastTick.ran /\ switches = 0) =>
        /\ Emitted
        /\ Len(pitchHistory) = Min(ticks, 20)
        /\ Len(volumeHistory) = Min(ticks, 20)
        /\ Len(voiceHistory) = Min(ticks, 20)
        /\ ticks >= 3 => (lastTick.r.jitter = 0 /\ lastTick.r.shimmer = 0)

C13_Witness ==
    /\ lastTick.ran /\ switches = 0
    /\ ticks > 20
    /\ Len(pitchHistory) = 20
    /\ Len(lastTick.cl.pitchHistory) >= 5
    /\ lastTick.r.jitter = 0 /\ lastTick.r.shimmer = 0

\* C14: for a spectrum of 0 bins, fundamentalFreq, highFreqEnergy and
\* spectralCentroid are each 0 (no NaN from a division by zero).
C14_EmptySpectrumFeaturesZero ==
    (fnResult.op = "spectralFeatures" /\ fnArgs.frame.len = 0) =>
        /\ fnResult.value.fundamentalFreq = 0
        /\ fnResult.value.highFreqEnergy = 0
        /\ fnResult.value.spectralCentroid = 0

\* C15: confidenceLevel is volumeScore + 0.3 (1 - jitter) + 0.3 (1 - shimmer)
\* clamped to [0, 1], where volumeScore is 0.4 exactly when 20 < level < 80
\* and 0.2 otherwise: the levels 20 and 80 get 0.2.
C15_ConfidenceFormula ==
    fnResult.op = "calculateConfidenceLevel" =>
        LET level == fnArgs.volume
            stability == 3 * (1000 - fnArgs.jitter)
                         + 3 * (1000 - fnArgs.shimmer)
            volumeScore == IF 20 < level /\ level < 80 THEN 4000 ELSE 2000
        IN /\ 10 * fnResult.value =
                  Min(Max(volumeScore + stability, 0), 10000)
           /\ level \in {20, 80} =>
                  10 * fnResult.value = 2000 + stability

C15_Witness ==
    /\ fnResult.op = "calculateConfidenceLevel"
    /\ fnArgs.volume = 80
    /\ fnArgs.jitter = 0 /\ fnArgs.shimmer = 0
    /\ fnResult.value = 800

\* C16: stressLevel is 0.30 highFreqEnergy + 0.25 jitter + 0.25 shimmer + t
\* clamped to [0, 1], where t is 0.20 exactly when the spectral centroid, as
\* a bin index, is strictly greater than 0.6, and 0 otherwise.
C16_StressFormula ==
    fnResult.op = "calculateStressLevel" =>
        LET t == IF fnArgs.spectralCentroid > 600 THEN 200000 ELSE 0
            weighted == 300 * fnArgs.highFreqEnergy + 250 * fnArgs.jitter
                        + 250 * fnArgs.shimmer
        IN 1000 * fnResult.value = Min(Max(weighted + t, 0), 1000000)

C16_Witness ==
    /\ fnResult.op = "calculateStressLevel"
    /\ fnArgs.spectralCentroid = 7000
    /\ fnArgs.highFreqEnergy = 500 /\ fnArgs.jitter = 200
    /\ fnArgs.shimmer = 0
    /\ fnResult.value = 400

\* the points of C17: the last min(5, len) samples of h, then the value c
WindowOf(h, c) ==
    LET k == Min(5, Len(h))
    IN [i \in 1..(k + 1) |-> IF i <= k THEN h[Len(h) - k + i] ELSE c]

\* |w[2] - w[1]| + ... + |w[n + 1] - w[n]|
RECURSIVE AbsDiffUpTo(_, _)
AbsDiffUpTo(w, n) ==
    IF n < 1 THEN 0 ELSE Abs(w[n + 1] - w[n]) + AbsDiffUpTo(w, n - 1)

\* C17: on a history of at least 3 samples, jitter is the mean absolute
\* difference of consecutive points of (the last min(5, len) history pitches,
\* then the current pitch), divided by 100 and capped at 1; shimmer is the
\* same on volumes with the divisor 50.
C17_JitterShimmerWindow ==
    (/\ fnResult.op \in {"calculateJitter", "calculateShimmer"}
     /\ Len(fnArgs.history) >= 3) =>
        LET w == WindowOf(fnArgs.history, fnArgs.current)
            n == Len(w) - 1
            total == AbsDiffUpTo(w, n)
        IN /\ n <= 5 /\ w[n + 1] = fnArgs.current
           /\ fnResult.op = "calculateJitter" =>
                  fnResult.value = Min(total \div n, 1000)
           /\ fnResult.op = "calculateShimmer" =>
                  fnResult.value = Min((total * 20) \div n, 1000)

C17_Witness ==
    /\ fnResult.op = "calculateJitter"
    /\ Len(fnArgs.history) = 6
    /\ fnArgs.history[1] # fnArgs.history[2]
    /\ fnArgs.current # fnArgs.history[6]
    /\ fnResult.value > 0 /\ fnResult.value < 1000

\* C18: on a voice history of at least 10 samples, speechRate is the number
\* of its samples strictly greater than 10 divided by its length.
C18_SpeechRateIsFractionAboveTen ==
    (fnResult.op = "calculateSpeechRate" /\ Len(fnArgs.history) >= 10) =>
        LET h == fnArgs.history
            count == Cardinality({i \in 1..Len(h) : h[i] > 10})
        IN /\ fnResult.value * Len(h) <= 1000 * count
           /\ 1000 * count < (fnResult.value + 1) * Len(h)

C18_Witness ==
    /\ fnResult.op = "calculateSpeechRate"
    /\ Len(fnArgs.history) = HistoryCapacity
    /\ fnArgs.history[1] = 10
    /\ fnArgs.history[HistoryCapacity] = 11
    /\ fnResult.value = 250

\* C19: in every state the pitch, volume and voice histories have the same
\* length, and the voice history equals the volume history entry by entry.
C19_HistoriesAligned ==
    /\ Len(pitchHistory) = Len(volumeHistory)
    /\ Len(voiceHistory) = Len(volumeHistory)
    /\ \A i \in 1..Len(volumeHistory) : voiceHistory[i] = volumeHistory[i]

C19_Witness ==
    /\ Emitted
    /\ Len(pushedVolume) > HistoryCapacity
    /\ Len(voiceHistory) = HistoryCapacity
    /\ voiceHistory[1] # voiceHistory[HistoryCapacity]

\* C20: every emitted record carries the sessionId the component was given,
\* and all records emitted under one EmotionDetector carry the same one.
C20_RecordsCarrySessionId ==
    /\ Emitted => lastTick.r.analysis.sessionId = sessionId
    /\ emittedSessions \subseteq {sessionId}

C20_Witness ==
    /\ Emitted
    /\ emitCount >= 3
    /\ sessionId = "session_2"
    /\ emittedSessions = {"session_2"}
    /\ lastTick.cl.pitchHistory # lastTick.prePitch

\* C21: in every state at most one analyzeAudio callback is pending.
C21_AtMostOnePendingCallback == Cardinality(pending) <= 1

\* C22: a tick emits and pushes only while isActive is true and the
\* component is listening.
C22_NoEmissionWhileStopped ==
    Emitted => (lastTick.active /\ lastTick.listening)

\* a tick whose closure holds three empty histories
EmptyHistoryTick ==
    /\ Emitted
    /\ lastTick.cl.pitchHistory = <<>>
    /\ lastTick.cl.volumeHistory = <<>>
    /\ lastTick.cl.voiceHistory = <<>>

\* C23: a tick evaluated against empty histories gives confident when its
\* stressLevel is below 0.3 and calm otherwise, never one of the other four
\* states.
C23_EmptyHistoryConfidentOrCalm ==
    EmptyHistoryTick =>
        lastTick.r.analysis.emotionalState =
            IF lastTick.r.analysis.stressLevel < 300 THEN "confident"
                                                     ELSE "calm"

C23_Witness ==
    /\ EmptyHistoryTick
    /\ lastTick.r.analysis.stressLevel >= 300
    /\ lastTick.r.analysis.emotionalState = "calm"
    /\ pitchHistory # <<>> /\ lastTick.prePitch # <<>>

\* C24: a record with the state deceptive comes only from a level <= 20 or
\* >= 80; for 20 < level < 80 the confidenceLevel is at least 0.4, and in
\* every record it is at least 0.2.
C24_DeceptiveOnlyOutsideOptimalVolume ==
    fnResult.op = "scoring" =>
        /\ fnResult.value.emotionalState = "deceptive" =>
               (fnArgs.volume <= 20 \/ fnArgs.volume >= 80)
        /\ (20 < fnArgs.volume /\ fnArgs.volume < 80) =>
               fnResult.value.confidenceLevel >= 400
        /\ fnResult.value.confidenceLevel >= 200

C24_Witness ==
    /\ fnResult.op = "scoring"
    /\ fnResult.value.emotionalState = "deceptive"
    /\ fnArgs.volume = 20
    /\ fnResult.value.confidenceLevel = 200

\* C25: each emitted voice record is appended at the end of the App's voice
\* log and leaves the emotion log as it was, and the other way round; the
\* logs change otherwise only when clearData empties both at once.
C25_LogsAppendOnly ==
    [][/\ voiceCount' # voiceCount =>
              /\ voiceCount' = voiceCount + 1
              /\ Len(voiceData') = Len(voiceData) + 1
              /\ SubSeq(voiceData', 1, Len(voiceData)) = voiceData
              /\ voiceData'[Len(voiceData')].id = voiceCount'
              /\ emotionData' = emotionData
       /\ emotionCount' # emotionCount =>
              /\ emotionCount' = emotionCount + 1
              /\ Len(emotionData') = Len(emotionData) + 1
              /\ SubSeq(emotionData', 1, Len(emotionData)) = emotionData
              /\ emotionData'[Len(emotionData')].id = emotionCount'
              /\ voiceData' = voiceData
       /\ (voiceCount' = voiceCount /\ emotionCount' = emotionCount) =>
              \/ voiceData' = voiceData /\ emotionData' = emotionData
              \/ /\ clearCount' = clearCount + 1
                 /\ voiceData' = <<>> /\ emotionData' = <<>>]_vars

C25_Witness ==
    /\ clearCount = 1
    /\ Len(voiceData) = 2 /\ voiceData[1].id = 2 /\ voiceData[2].id = 3
    /\ Len(emotionData) = 1 /\ emotionCount = 1

\* C26: processFrame emits a record only while isRecording is true and
\* cameraState is 'active'.
C26_EmotionOnlyWhileRecordingAndActive ==
    lastFrame.ran =>
        (lastFrame.isRecording /\ lastFrame.cameraState = "active")

\* C27: isRecording (the AudioAnalyzer's isActive) is true only while
\* cameraState is 'active'.
C27_RecordingOnlyWhileCameraActive ==
    isActive => cameraState = "active"

\* filtered holds exactly the records of log whose session is selected, in
\* the order of log (the ids of a log are its positions)
ExactlySession(filtered, log, selected) ==
    /\ \A i \in DOMAIN filtered :
          /\ filtered[i].sessionId = selected
          /\ filtered[i].id \in DOMAIN log
          /\ log[filtered[i].id] = filtered[i]
    /\ \A j \in DOMAIN log :
          log[j].sessionId = selected =>
              \E i \in DOMAIN filtered : filtered[i] = log[j]
    /\ \A i \in DOMAIN filtered :
          \A k \in DOMAIN filtered : i < k => filtered[i].id < filtered[k].id

\* C28: once the filter effect has run, filteredData and filteredVoiceData
\* hold exactly the records of the selected session, in their order, or all
\* records when 'all' is selected.
C28_FilterBySession ==
    ~filterDirty =>
        IF selectedSession = "all"
        THEN filteredData = emotionData /\ filteredVoiceData = voiceData
        ELSE /\ ExactlySession(filteredData, emotionData, selectedSession)
             /\ ExactlySession(filteredVoiceData, voiceData, selectedSession)

C28_Witness ==
    /\ ~filterDirty
    /\ selectedSession = "session_2"
    /\ Len(emotionData) = 3
    /\ Len(filteredData) = 2
    /\ filteredData[1].id = 1 /\ filteredData[2].id = 3
    /\ Len(filteredVoiceData) = 1 /\ Len(voiceData) = 2

\* C29: in the CLI emotionHistory holds at most 20 entries, the last
\* min(n, 20) of the n detections in order, and detectionCount is n, never
\* less than the length of the history.
C29_HistoryIsLastTwenty ==
    LET n == Len(detections)
        kept == Len(emotionHistory)
    IN  /\ kept <= 20
        /\ kept = (IF n < 20 THEN n ELSE 20)
        /\ \A i \in 1..kept : emotionHistory[i] = detections[n - kept + i]
        /\ detectionCount = n
        /\ detectionCount >= kept

C29_Witness ==
    /\ Len(detections) = 22
    /\ detections[2].emotion = "angry"
    /\ detections[3].emotion = "neutral"
    /\ detectionCount = 22
    /\ Len(emotionHistory) = 20
    /\ emotionHistory[20].emotion = "neutral"

\* the records of the last k positions of a list that satisfy a test
RecentMatches(items, k, Test(_)) ==
    Cardinality({i \in DOMAIN items : i > Len(items) - k /\ Test(items[i])})

\* the factors that the props of the call trigger, with their weights
TriggeredFactors ==
    (IF RecentMatches(fnArgs.data, 5,
                      LAMBDA e : e.emotion \in
                                     {"fear", "guilt", "contempt", "angry"})
            >= 3
     THEN {[weight |-> 30, text |-> "Multiple stress emotions detected"]}
     ELSE {})
    \cup
    (IF RecentMatches(fnArgs.voiceData, 3, LAMBDA v : v.stressLevel > 700)
            >= 2
     THEN {[weight |-> 25, text |-> "Elevated voice stress patterns"]}
     ELSE {})
    \cup
    (IF RecentMatches(fnArgs.voiceData, 3,
                      LAMBDA v : v.emotionalState = "deceptive") >= 1
     THEN {[weight |-> 35, text |-> "Deceptive voice patterns detected"]}
     ELSE {})
    \cup
    (IF RecentMatches(fnArgs.voiceData, 3, LAMBDA v : v.confidenceLevel < 400)
            >= 2
     THEN {[weight |-> 20, text |-> "Low confidence indicators"]}
     ELSE {})

RECURSIVE WeightSum(_)
WeightSum(factors) ==
    IF factors = {} THEN 0
    ELSE LET f == CHOOSE x \in factors : TRUE
         IN  f.weight + WeightSum(factors \ {f})

DeceptionRiskReturned ==
    fnResult # NoCall /\ fnResult.op = "calculateDeceptionRisk"

\* C30: calculateDeceptionRisk returns a riskScore in [0, 100] that is
\* min(100, sum of the weights 30, 25, 35, 20 of the triggered factors), and
\* a factors list with exactly one entry per triggered factor; with no
\* records the score is 0 and the list is empty.
C30_DeceptionRiskClamped ==
    DeceptionRiskReturned =>
        LET result == fnResult.value
            sum == WeightSum(TriggeredFactors)
        IN  /\ result.riskScore \in 0..100
            /\ result.riskScore = (IF sum > 100 THEN 100 ELSE sum)
            /\ Len(result.factors) = Cardinality(TriggeredFactors)
            /\ {result.factors[i] : i \in DOMAIN result.factors}
                   = {f.text : f \in TriggeredFactors}
            /\ (fnArgs.data = <<>> /\ fnArgs.voiceData = <<>>) =>
                   (result.riskScore = 0 /\ result.factors = <<>>)

C30_Witness ==
    /\ DeceptionRiskReturned
    /\ Cardinality(TriggeredFactors) = 4
    /\ fnResult.value.riskScore = 100
    /\ Len(fnResult.value.factors) = 4
    /\ Len(fnArgs.data) = 6
    /\ fnArgs.data[1].emotion = "happy"

====
